---- MODULE Spec2Model ----
(***************************************************************************)
(* A model of the completion-signalling code of gemDirect1:                *)
(*   - write_done_marker (src/comfyui_nodes/write_done_marker.py), the     *)
(*     producer that publishes "<prefix>.done" through a temporary file;   *)
(*   - wait_for_completion (src/test_workflow.py), the consumer that waits *)
(*     on the event stream with a timeout;                                 *)
(*   - the FastVideo adapter (src/scripts/fastvideo/fastvideo_server.py),  *)
(*     the HTTP service in front of the shared video generator.            *)
(* File names are sequences of name pieces ("scene", ".done", ".tmp"),     *)
(* concatenated as the f-strings of the code concatenate them.  A path      *)
(* names a file; an open handle stays on its file when the file is renamed *)
(* and loses it from view when the name is removed or replaced.            *)
(***************************************************************************)
EXTENDS Integers, Sequences, FiniteSets, TLC

\* ------------------------------------------------------------------ bounds
\* Calls of write_done_marker one producer makes in sequence.
MaxCalls == 2
\* Last second of the wall clock while producers run.
MaxClock == 1
\* Largest timeout argument of wait_for_completion, in seconds.
MaxTimeout == 12
\* Largest progress value an event carries.
MaxProgress == 1
\* Last millisecond of the clock the adapter reads.
MaxMs == 1
\* GET /health requests answered.
MaxHealth == 1

\* ------------------------------------------------------------ producer data
Procs == {"p1", "p2"}

OutputDir == "output"

\* Values of the prefix argument: two artifact set ids, one of which ends in
\* the marker suffix itself.
Prefixes == {<<"scene">>, <<"scene", ".done">>}

\* Default of the tmp_ext parameter.
DefaultTmpExt == <<".tmp">>

\* Values of the tmp_ext argument: the default, the empty string, ".done".
TmpExts == {DefaultTmpExt, <<>>, <<".done">>}

\* Values of the frame_count argument: <<>> is None, <<n>> is the integer n.
FrameCounts == {<<>>, <<25>>}

\* f"{prefix}.done"
FinalName(prefix) == prefix \o <<".done">>

\* f"{prefix}.done{tmp_ext}"
TmpName(prefix, tmp_ext) == prefix \o <<".done">> \o tmp_ext

\* os.path.join(output_dir, name)
PathJoin(dir, name) == <<dir>> \o name

FinalPath(prefix) == PathJoin(OutputDir, FinalName(prefix))

TmpPath(prefix, tmp_ext) == PathJoin(OutputDir, TmpName(prefix, tmp_ext))

AllPaths == {FinalPath(x) : x \in Prefixes} \cup {TmpPath(x, e) : x \in Prefixes, e \in TmpExts}

\* ------------------------------------------------------------------ JSON
LBrace == [k |-> "{", v |-> 0]

RBrace == [k |-> "}", v |-> 0]

\* iso_now(): the UTC second of the clock, formatted; one string per second.
IsoNow(clock) == clock

\* payload = {"Timestamp": iso_now()}, plus "FrameCount" unless it is None.
Payload(clock, frame_count) ==
    <<[k |-> "Timestamp", v |-> IsoNow(clock)]>>
        \o (IF frame_count # <<>> THEN <<[k |-> "FrameCount", v |-> frame_count[1]]>> ELSE <<>>)

\* json.dump(payload, f): the text of the whole document, piece by piece.
JsonDump(payload) == <<LBrace>> \o payload \o <<RBrace>>

\* A text is a JSON document when it opens and closes its object.
IsJson(text) == Len(text) >= 2 /\ text[1] = LBrace /\ text[Len(text)] = RBrace

\* json.loads(text) of a document: the members between the braces.
JsonLoads(text) == SubSeq(text, 2, Len(text) - 1)

\* A marker: Timestamp, then optionally FrameCount, nothing else.
IsMarker(obj) ==
    /\ Len(obj) \in {1, 2}
    /\ obj[1].k = "Timestamp"
    /\ Len(obj) = 2 => obj[2].k = "FrameCount"

VARIABLES
    now,        \* wall clock at its latest reading, in seconds
    dirExists,  \* the output directory exists
    fs,         \* path -> the file it names: [exists, text]
    pc,         \* producer -> where it is in write_done_marker
    args,       \* producer -> arguments of its current call
    payload,    \* producer -> payload of its current call
    handle,     \* producer -> path naming the file it has open (<<>>: none,
                \*   or a file that no path names any more)
    faults,     \* producer -> operations that raised in its current call
    log,        \* producer -> lines printed by its current call
    ret,        \* producer -> what its current call returned
    history,    \* producer -> <<>>, or its previous call: what it returned, its
                \*   payload, whether all calls so far ran without a failure
    ncalls,     \* calls started so far
    wpc,        \* where wait_for_completion is
    timeout,    \* its timeout argument
    invoked,    \* clock at its invocation
    start_time, \* its start_time
    last_progress,  \* its last_progress
    ws,         \* the connection: "none", "open", "closed", or "close_failed"
                \*   once a call of ws.close() has raised
    lastMsg,    \* what the latest ws.recv() gave
    wret,       \* what wait_for_completion returned
    wlog,       \* the lines printed on the path that returned
    markerAtInvoke  \* the awaited marker existed at the invocation

markerVars == <<dirExists, fs, pc, args, payload, handle, faults, log, ret, history, ncalls>>

waitVars == <<wpc, timeout, invoked, start_time, last_progress, ws, lastMsg, wret, wlog, markerAtInvoke>>

\* The state of the FastVideo adapter (src/scripts/fastvideo/fastvideo_server.py).
VARIABLES
    ms,         \* time.time() at its latest reading, in milliseconds
    generator,  \* _generator: 0 is None, n is the n-th instance created
    loadLog,    \* outcomes of the VideoGenerator(...) constructions so far
    loading,    \* requests inside the VideoGenerator(...) construction
    inGenerate, \* requests inside generator.generate_video(...)
    dirs,       \* directories that exist
    files,      \* path -> the request whose data the file holds ("" for none)
    running,    \* the coroutine the event loop is running, or "none"
    rpc,        \* request -> where it is
    req,        \* request -> its GenerateVideoRequest
    local,      \* request -> the local variables of its handler: warnings,
                \*   result, start_time, duration_ms, output_path
    worker,     \* request -> the generator instance get_generator() gave it
    resp,       \* request -> the HTTP response it got
    effects,    \* request -> the side-effecting calls made on its behalf
    raised,     \* request -> str(e) of what its worker call raised (<<>>: nothing)
    loadError,  \* request -> str(e) of what its get_generator() raised (<<>>: nothing)
    nhealth,    \* GET /health requests answered so far
    health      \* the latest answer of GET /health

genVars == <<ms, generator, loadLog, loading, inGenerate, dirs, files, running, rpc, req,
             local, worker, resp, effects, raised, loadError,
             nhealth, health>>

vars == <<now, markerVars, waitVars, genVars>>

NoArgs == [prefix |-> <<>>, tmp_ext |-> <<>>, frame_count |-> <<>>]

NoFile == [exists |-> FALSE, text |-> <<>>]

NoHandle == <<>>

final_path(p) == FinalPath(args[p].prefix)

tmp_path(p) == TmpPath(args[p].prefix, args[p].tmp_ext)

\* ------------------------------------------------------- file operations
\* open(path, 'w'): truncates the file the path names, or creates it empty.
OpenW(f, path) == [f EXCEPT ![path] = [exists |-> TRUE, text |-> <<>>]]

\* A write through an open handle reaches the file wherever its name is now;
\* a file that has lost its name takes the text with it.
WriteText(f, h, text) == IF h = NoHandle THEN f ELSE [f EXCEPT ![h] = [exists |-> TRUE, text |-> text]]

\* Mutant of OsReplace: a rename that does not overwrite an existing
\* destination, and drops the source.
OsReplaceKeepsOld(f, src, dst) ==
    IF src = dst THEN f
    ELSE IF f[dst].exists THEN [f EXCEPT ![src] = NoFile]
    ELSE [f EXCEPT ![dst] = f[src], ![src] = NoFile]

\* os.replace(src, dst) on the path table: dst names src's file, src is gone.
OsReplace(f, src, dst) ==
    IF src = dst THEN f ELSE [f EXCEPT ![dst] = f[src], ![src] = NoFile]

\* os.remove(path)
OsRemove(f, path) == [f EXCEPT ![path] = NoFile]

\* Open handles after os.replace(src, dst): a handle on src's file follows it
\* to dst, a handle on the file dst named keeps a file without a name.
HandlesAfterReplace(h, src, dst) ==
    IF src = dst THEN h
    ELSE [q \in DOMAIN h |-> IF h[q] = src THEN dst ELSE IF h[q] = dst THEN NoHandle ELSE h[q]]

\* Open handles after os.remove(path).
HandlesAfterRemove(h, path) == [q \in DOMAIN h |-> IF h[q] = path THEN NoHandle ELSE h[q]]

\* MarkerStore.Exists: the final path only.
Exists(prefix) == fs[FinalPath(prefix)].exists

\* MarkerStore.Read: not found, corrupt (parse failure) or the marker.
Read(prefix) ==
    IF ~fs[FinalPath(prefix)].exists THEN [status |-> "not_found", marker |-> <<>>]
    ELSE LET text == fs[FinalPath(prefix)].text
         IN  IF IsJson(text) /\ IsMarker(JsonLoads(text))
             THEN [status |-> "ok", marker |-> JsonLoads(text)]
             ELSE [status |-> "corrupt", marker |-> <<>>]

\* ------------------------------------------------------ write_done_marker
AtomicOps == {"open_tmp", "dump_tmp", "replace"}

FallbackWriteOps == {"open_final", "dump_final"}

\* What a write that raises leaves of the document: nothing, or all but its end.
PartialTexts(text) == {<<>>, SubSeq(text, 1, Len(text) - 1)}

\* The call ends with value r after printing lines.
Return(p, r, lines) ==
    /\ pc' = [pc EXCEPT ![p] = "returned"]
    /\ ret' = [ret EXCEPT ![p] = r]
    /\ log' = [log EXCEPT ![p] = log[p] \o lines]

\* An exception in the atomic path: lines 64-65, then the fallback.
FallbackWith(p, ops) ==
    /\ pc' = [pc EXCEPT ![p] = "open_final"]
    /\ faults' = [faults EXCEPT ![p] = faults[p] \cup ops]
    /\ log' = [log EXCEPT ![p] = log[p] \o <<"rename_failed">>]
    /\ UNCHANGED ret

ToFallback(p, op) == FallbackWith(p, {op})

\* Who may start a call.  Producer p1 publishes and then republishes one
\* artifact set, up to MaxCalls calls in sequence, as long as it is alone;
\* producer p2 makes one call, concurrent with or after the first call of p1.
MayCall(p) ==
    IF p = "p1"
    THEN pc[p] \in {"idle", "returned"} /\ ncalls < MaxCalls /\ pc["p2"] = "idle"
    ELSE pc[p] = "idle" /\ pc["p1"] # "idle" /\ history["p1"] = <<>>

\* A producer calls write_done_marker(output_dir, prefix, frame_count, tmp_ext).
Call(p) ==
    /\ MayCall(p)
    /\ \E x \in Prefixes, e \in TmpExts, n \in FrameCounts :
           /\ pc[p] = "returned" => x = args[p].prefix
           /\ args' = [args EXCEPT ![p] = [prefix |-> x, tmp_ext |-> e, frame_count |-> n]]
    /\ history' = [history EXCEPT ![p] =
           IF pc[p] = "returned"
           THEN <<[ret |-> ret[p], payload |-> payload[p],
                   clean |-> faults[p] = {} /\ (history[p] # <<>> => history[p][1].clean)]>>
           ELSE history[p]]
    /\ pc' = [pc EXCEPT ![p] = "makedirs"]
    /\ ncalls' = ncalls + 1
    /\ faults' = [faults EXCEPT ![p] = {}]
    /\ log' = [log EXCEPT ![p] = <<>>]
    /\ ret' = [ret EXCEPT ![p] = "none"]
    /\ payload' = [payload EXCEPT ![p] = <<>>]
    /\ UNCHANGED <<now, dirExists, fs, handle>>
    /\ UNCHANGED <<waitVars, genVars>>

\* os.makedirs(output_dir, exist_ok=True), outside the try; then the payload,
\* with the clock read at some second t not before its latest reading.
Makedirs(p) ==
    /\ pc[p] = "makedirs"
    /\ \/ /\ dirExists' = TRUE
          /\ \E t \in now..MaxClock :
                 /\ now' = t
                 /\ payload' = [payload EXCEPT ![p] = Payload(t, args[p].frame_count)]
          /\ pc' = [pc EXCEPT ![p] = "open_tmp"]
          /\ UNCHANGED <<faults, ret, log>>
       \/ /\ ~dirExists
          /\ faults' = [faults EXCEPT ![p] = faults[p] \cup {"makedirs"}]
          /\ Return(p, "raised", <<>>)
          /\ UNCHANGED <<now, dirExists, payload>>
    /\ UNCHANGED <<fs, handle, args, history, ncalls>>
    /\ UNCHANGED <<waitVars, genVars>>

\* with open(tmp_path, 'w') as f:
OpenTmp(p) ==
    /\ pc[p] = "open_tmp"
    /\ \/ /\ fs' = OpenW(fs, tmp_path(p))
          /\ handle' = [handle EXCEPT ![p] = tmp_path(p)]
          /\ pc' = [pc EXCEPT ![p] = "dump_tmp"]
          /\ UNCHANGED <<faults, log, ret>>
       \/ /\ ToFallback(p, "open_tmp")
          /\ UNCHANGED <<fs, handle>>
    /\ UNCHANGED <<now, dirExists, args, payload, history, ncalls>>
    /\ UNCHANGED <<waitVars, genVars>>

\* json.dump(payload, f); f.flush(); os.fsync (its failure is ignored); close.
\* A failed write leaves a proper prefix of the document in the file.
DumpTmp(p) ==
    /\ pc[p] = "dump_tmp"
    /\ \/ /\ fs' = WriteText(fs, handle[p], JsonDump(payload[p]))
          /\ pc' = [pc EXCEPT ![p] = "replace"]
          /\ UNCHANGED <<faults, log, ret>>
       \/ /\ \E t \in PartialTexts(JsonDump(payload[p])) : fs' = WriteText(fs, handle[p], t)
          /\ ToFallback(p, "dump_tmp")
    /\ handle' = [handle EXCEPT ![p] = NoHandle]
    /\ UNCHANGED <<now, dirExists, args, payload, history, ncalls>>
    /\ UNCHANGED <<waitVars, genVars>>

\* os.replace(tmp_path, final_path); print; return True.  It raises when the
\* temporary path names no file any more (recorded as "tmp_missing" next to
\* "replace"), and may raise for other reasons.
Replace(p) ==
    /\ pc[p] = "replace"
    /\ \/ /\ fs[tmp_path(p)].exists
          /\ fs' = OsReplace(fs, tmp_path(p), final_path(p))
          /\ handle' = HandlesAfterReplace(handle, tmp_path(p), final_path(p))
          /\ Return(p, "True", <<"atomic">>)
          /\ UNCHANGED faults
       \/ /\ ToFallback(p, "replace")
          /\ fs[tmp_path(p)].exists
          /\ UNCHANGED <<fs, handle>>
       \/ /\ FallbackWith(p, {"replace", "tmp_missing"})
          /\ ~fs[tmp_path(p)].exists
          /\ UNCHANGED <<fs, handle>>
    /\ UNCHANGED <<now, dirExists, args, payload, history, ncalls>>
    /\ UNCHANGED <<waitVars, genVars>>

\* Mutant of OpenFinal: a failure of the direct write is reported as success.
OpenFinalSwallows(p) ==
    /\ pc[p] = "open_final"
    /\ \/ /\ fs' = OpenW(fs, final_path(p))
          /\ handle' = [handle EXCEPT ![p] = final_path(p)]
          /\ pc' = [pc EXCEPT ![p] = "dump_final"]
          /\ UNCHANGED <<faults, log, ret>>
       \/ /\ faults' = [faults EXCEPT ![p] = faults[p] \cup {"open_final"}]
          /\ Return(p, "True", <<"failed">>)
          /\ UNCHANGED <<fs, handle>>
    /\ UNCHANGED <<now, dirExists, args, payload, history, ncalls>>
    /\ UNCHANGED <<waitVars, genVars>>

\* Fallback: with open(final_path, 'w') as f:
OpenFinal(p) ==
    /\ pc[p] = "open_final"
    /\ \/ /\ fs' = OpenW(fs, final_path(p))
          /\ handle' = [handle EXCEPT ![p] = final_path(p)]
          /\ pc' = [pc EXCEPT ![p] = "dump_final"]
          /\ UNCHANGED <<faults, log, ret>>
       \/ /\ faults' = [faults EXCEPT ![p] = faults[p] \cup {"open_final"}]
          /\ Return(p, "False", <<"failed">>)
          /\ UNCHANGED <<fs, handle>>
    /\ UNCHANGED <<now, dirExists, args, payload, history, ncalls>>
    /\ UNCHANGED <<waitVars, genVars>>

\* Fallback: json.dump(payload, f); close.
DumpFinal(p) ==
    /\ pc[p] = "dump_final"
    /\ \/ /\ fs' = WriteText(fs, handle[p], JsonDump(payload[p]))
          /\ pc' = [pc EXCEPT ![p] = "remove_tmp"]
          /\ UNCHANGED <<faults, log, ret>>
       \/ /\ \E t \in PartialTexts(JsonDump(payload[p])) : fs' = WriteText(fs, handle[p], t)
          /\ faults' = [faults EXCEPT ![p] = faults[p] \cup {"dump_final"}]
          /\ Return(p, "False", <<"failed">>)
    /\ handle' = [handle EXCEPT ![p] = NoHandle]
    /\ UNCHANGED <<now, dirExists, args, payload, history, ncalls>>
    /\ UNCHANGED <<waitVars, genVars>>

\* Fallback: if os.path.exists(tmp_path): os.remove(tmp_path), errors ignored;
\* print; return True.
RemoveTmp(p) ==
    /\ pc[p] = "remove_tmp"
    /\ \/ /\ fs' = (IF fs[tmp_path(p)].exists THEN OsRemove(fs, tmp_path(p)) ELSE fs)
          /\ handle' = HandlesAfterRemove(handle, tmp_path(p))
          /\ UNCHANGED faults
       \/ /\ fs[tmp_path(p)].exists
          /\ faults' = [faults EXCEPT ![p] = faults[p] \cup {"remove"}]
          /\ UNCHANGED <<fs, handle>>
    /\ Return(p, "True", <<"fallback">>)
    /\ UNCHANGED <<now, dirExists, args, payload, history, ncalls>>
    /\ UNCHANGED <<waitVars, genVars>>

\* main(): return 0 if ok else 2; an exception leaves the interpreter with 1.
ExitCode(r) == IF r = "True" THEN 0 ELSE IF r = "False" THEN 2 ELSE 1

\* ---------------------------------------------------- wait_for_completion
\* The artifact set whose marker the consumer is waiting for.
AwaitedPrefix == <<"scene">>

\* websocket.create_connection(ws_url, timeout=10): the socket timeout, which
\* bounds the connection attempt and every ws.recv().
ConnTimeout == 10

RecvTimeout == 10

\* Seconds a connection attempt or a receive can take: none, one, the most.
ConnDurations == {0, 1, ConnTimeout}

RecvDurations == {0, 1, RecvTimeout}

\* Values of the timeout argument.
Timeouts == {0, 1, MaxTimeout}

\* exception_message values of error events.
ErrMsgs == {"boom", "oom"}

NoMsg ==
    [raw |-> "none", type |-> "", data |-> "absent", value |-> 0, max |-> 0, emsg |-> "",
     prompt_id |-> ""]

Msg(raw, type, data, value, max, emsg) ==
    [raw |-> raw, type |-> type, data |-> data, value |-> value, max |-> max, emsg |-> emsg,
     prompt_id |-> ""]

\* The prompt an event is about: the one the caller waits for, or another
\* prompt queued on the same client channel.
PromptIds == {"awaited", "other"}

\* Message m with data.prompt_id = id.
ForPrompt(m, id) == [m EXCEPT !.prompt_id = id]

\* What one ws.recv() can give: an exception (socket timeout, closed
\* connection), an empty message, text that is not JSON, JSON that is not an
\* object, or an object with a type and with or without a data object.
\* emsg "" stands for a data object without exception_message, prompt_id ""
\* for one without prompt_id; the terminal events come with either prompt.
RecvResults ==
    {Msg(r, "", "absent", 0, 0, "") : r \in {"exception", "empty", "notjson", "nonobject"}}
    \cup {Msg("object", t, d, 0, 0, "") : t \in {"executing", "progress", "executed", "error", "status"},
                                          d \in {"absent", "nonobject"}}
    \cup {Msg("object", t, "object", 0, 0, "") : t \in {"executing", "executed", "status"}}
    \cup {Msg("object", "progress", "object", v, m, "") : v \in 0..MaxProgress, m \in {0, 100}}
    \cup {Msg("object", "error", "object", 0, 0, e) : e \in ErrMsgs \cup {""}}
    \cup {ForPrompt(Msg("object", "executed", "object", 0, 0, ""), id) : id \in PromptIds}
    \cup {ForPrompt(Msg("object", "error", "object", 0, 0, e), id) :
               e \in ErrMsgs \cup {""}, id \in PromptIds}

\* data.get('data', {}) raises AttributeError when data is not an object.
DataRaises(m) == m.data = "nonobject"

\* data.get('data', {}).get('value', 0)
ProgressValue(m) == IF m.data = "absent" THEN 0 ELSE m.value

\* Mutant of ExceptionMessage: the message of the event is dropped.
ExceptionMessageDropped(m) == "Unknown error"

\* data.get('data', {}).get('exception_message', 'Unknown error')
ExceptionMessage(m) == IF m.data = "absent" \/ m.emsg = "" THEN "Unknown error" ELSE m.emsg

\* Mutant of Branch: a progress event that reports its last step ends the
\* wait like an `executed` event.
BranchProgressEnds(m) ==
    IF m.raw # "object" THEN "continue"
    ELSE IF m.type \in {"executed"} THEN "executed"
    ELSE IF m.type = "progress" /\ ~(m.data = "nonobject") /\ m.value >= 1 THEN "executed"
    ELSE IF m.type = "error" /\ ~(m.data = "nonobject") THEN "error"
    ELSE "continue"

\* Mutant of Branch: a message of a type the loop does not know ends the wait
\* like an `error` event.
BranchUnknownEnds(m) ==
    IF m.raw # "object" THEN "continue"
    ELSE IF m.type \in {"executed"} THEN "executed"
    ELSE IF m.type = "error" /\ ~DataRaises(m) THEN "error"
    ELSE IF m.type \notin {"executing", "progress", "error"} THEN "error"
    ELSE "continue"

\* The branch of the loop body a received message takes: "continue" for
\* everything that goes round the loop, "executed" and "error" for the two
\* branches that return.
Branch(m) ==
    IF m.raw # "object" THEN "continue"
    ELSE IF m.type \in {"executed"} THEN "executed"
    ELSE IF m.type = "error" /\ ~DataRaises(m) THEN "error"
    ELSE "continue"

Line(kind, text) == [line |-> kind, text |-> text]

\* A branch of the loop body that returns: its line, ws.close(), return.
\* The branch is inside the try of the loop body, so when ws.close() raises,
\* `except Exception` (lines 157-159) prints the exception and continues:
\* the wait stays in its loop and nothing is returned.  wlog keeps the line
\* of the branch that returns; what a round that goes on has printed is not
\* kept.
CloseInLoop(value, line, closes) ==
    IF closes
    THEN /\ wpc' = "done"
         /\ ws' = "closed"
         /\ wret' = value
         /\ wlog' = wlog \o <<line>>
    ELSE /\ ws' = "close_failed"
         /\ UNCHANGED <<wpc, wret, wlog>>

\* ws.close() after the loop (line 161) and what follows it: the value and
\* the line of the timeout, or, when close raises, the outer handler's
\* (line 165).
CloseAndReturn(value, closes) ==
    /\ wpc' = "done"
    /\ IF closes
       THEN ws' = "closed" /\ wret' = value
       ELSE ws' = "close_failed" /\ wret' = "False"

\* Mutant of LoopContinues: the loop also ends once the awaited marker exists.
LoopContinuesUnlessMarker == now - start_time < timeout /\ ~Exists(AwaitedPrefix)

\* Mutant of LoopContinues: a round still starts up to one second past the
\* deadline.
LoopContinuesPastDeadline == now - start_time < timeout + 2

\* Mutant of LoopContinues: the deadline itself still starts a round.
LoopContinuesAtDeadline == now - start_time <= timeout

\* while time.time() - start_time < timeout
LoopContinues == now - start_time < timeout

\* wait_for_completion(prompt_id, client_id, timeout) is called.
WaitInvoke ==
    /\ wpc = "idle"
    /\ \E t \in Timeouts : timeout' = t
    /\ invoked' = now
    /\ markerAtInvoke' = Exists(AwaitedPrefix)
    /\ wpc' = "connect"
    /\ UNCHANGED <<now, genVars, markerVars, start_time, last_progress, ws, lastMsg, wret, wlog>>

\* websocket.create_connection(...), then start_time = time.time(); a failure
\* goes to the outer handler: print, return False.
Connect ==
    /\ wpc = "connect"
    /\ \E d \in ConnDurations :
           /\ now' = now + d
           /\ \/ /\ ws' = "open"
                 /\ start_time' = now + d
                 /\ wpc' = "loop"
                 /\ UNCHANGED <<wret, wlog>>
              \/ /\ wpc' = "done"
                 /\ wret' = "False"
                 /\ wlog' = wlog \o <<Line("connection_error", "")>>
                 /\ UNCHANGED <<ws, start_time>>
    /\ UNCHANGED <<genVars, markerVars, timeout, invoked, last_progress, lastMsg, markerAtInvoke>>

\* One round of the loop: the test of the deadline, ws.recv(), the branches.
Iterate ==
    /\ wpc = "loop"
    /\ LoopContinues
    /\ \E d \in RecvDurations, m \in RecvResults, closes \in BOOLEAN :
           /\ now' = now + d
           /\ lastMsg' = m
           /\ last_progress' =
                  IF m.raw = "object" /\ m.type = "progress" /\ ~DataRaises(m)
                     /\ ProgressValue(m) # last_progress
                  THEN ProgressValue(m) ELSE last_progress
           /\ CASE Branch(m) = "executed" ->
                       CloseInLoop("True", Line("complete", ""), closes)
                  [] Branch(m) = "error" ->
                       CloseInLoop("False", Line("error", ExceptionMessage(m)), closes)
                  [] OTHER ->
                       /\ closes
                       /\ UNCHANGED <<wpc, ws, wret, wlog>>
    /\ UNCHANGED <<genVars, markerVars, timeout, invoked, start_time, markerAtInvoke>>

\* Mutant of TimeoutExit: the deadline has a return value of its own.
TimeoutExitTagged ==
    /\ wpc = "loop"
    /\ ~LoopContinues
    /\ \E closes \in BOOLEAN :
           /\ wpc' = "done"
           /\ ws' = (IF closes THEN "closed" ELSE "close_failed")
           /\ wret' = (IF closes THEN "TimedOut" ELSE "False")
           /\ wlog' = wlog \o <<IF closes THEN Line("timeout", "") ELSE Line("connection_error", "")>>
    /\ UNCHANGED <<now, genVars, markerVars, timeout, invoked, start_time, last_progress, lastMsg, markerAtInvoke>>

\* The loop ends at the deadline: ws.close(); print; return False.
TimeoutExit ==
    /\ wpc = "loop"
    /\ ~LoopContinues
    /\ \E closes \in BOOLEAN :
           /\ CloseAndReturn("False", closes)
           /\ wlog' = wlog \o <<IF closes THEN Line("timeout", "") ELSE Line("connection_error", "")>>
    /\ UNCHANGED <<now, genVars, markerVars, timeout, invoked, start_time, last_progress, lastMsg, markerAtInvoke>>

\* The producer publishes the awaited marker (a call of write_done_marker on
\* its atomic path, seen from the consumer).
MarkerAppears ==
    /\ ~Exists(AwaitedPrefix)
    /\ LET tmp == TmpPath(AwaitedPrefix, DefaultTmpExt)
           text == JsonDump(Payload(now, <<25>>))
       IN  fs' = OsReplace(WriteText(OpenW(fs, tmp), tmp, text), tmp, FinalPath(AwaitedPrefix))
    /\ dirExists' = TRUE
    /\ UNCHANGED <<now, waitVars, genVars, pc, args, payload, handle, faults, log, ret, history, ncalls>>

\* ------------------------------------------------------ FastVideo adapter
\* The POST /generate requests in flight.
Reqs == {"r1", "r2"}

\* Field(16, ge=8, le=30), Field(121, ge=8, le=300), Field(1280, ge=256,
\* le=1920), Field(544, ge=256, le=1080): defaults and inclusive ranges.
FpsDefault == 16
FpsMin == 8
FpsMax == 30
NumFramesDefault == 121
NumFramesMin == 8
NumFramesMax == 300
WidthDefault == 1280
WidthMin == 256
WidthMax == 1920
HeightDefault == 544
HeightMin == 256
HeightMax == 1080

\* Field("artifacts/fastvideo")
DefaultOutputDir == "artifacts/fastvideo"

\* Optional values: <<>> is None, <<v>> is the value v.
None == <<>>

\* keyframeBase64: None, the empty string, text that does not decode to an
\* image, or an image of the given (width, height).
NoKeyframe == [kind |-> "none", size |-> <<0, 0>>]

Keyframes ==
    {NoKeyframe, [kind |-> "empty", size |-> <<0, 0>>], [kind |-> "undecodable", size |-> <<0, 0>>],
     [kind |-> "image", size |-> <<300, 300>>],
     [kind |-> "image", size |-> <<WidthDefault, HeightDefault>>]}

\* seed: None or an integer.
Seeds == {None, <<7>>}

\* A request that leaves every optional field out.
DefaultRequest ==
    [fps |-> FpsDefault, numFrames |-> NumFramesDefault, width |-> WidthDefault,
     height |-> HeightDefault, keyframeBase64 |-> NoKeyframe, seed |-> None,
     outputDir |-> DefaultOutputDir]

\* Request bodies: the default request; each range field one below its
\* minimum and one above its maximum (and numFrames = 400); every range
\* field at its minimum, and at its maximum; each keyframe; a seed.
Requests ==
    {DefaultRequest}
    \cup {[DefaultRequest EXCEPT !.fps = v] : v \in {FpsMin - 1, FpsMax + 1}}
    \cup {[DefaultRequest EXCEPT !.numFrames = v] : v \in {NumFramesMin - 1, NumFramesMax + 1, 400}}
    \cup {[DefaultRequest EXCEPT !.width = v] : v \in {WidthMin - 1, WidthMax + 1}}
    \cup {[DefaultRequest EXCEPT !.height = v] : v \in {HeightMin - 1, HeightMax + 1}}
    \cup {[DefaultRequest EXCEPT !.fps = FpsMin, !.numFrames = NumFramesMin,
                                 !.width = WidthMin, !.height = HeightMin],
          [DefaultRequest EXCEPT !.fps = FpsMax, !.numFrames = NumFramesMax,
                                 !.width = WidthMax, !.height = HeightMax]}
    \cup {[DefaultRequest EXCEPT !.keyframeBase64 = k] : k \in Keyframes}
    \cup {[DefaultRequest EXCEPT !.seed = x] : x \in Seeds}
    \cup {[DefaultRequest EXCEPT !.keyframeBase64 = [kind |-> "image", size |-> <<300, 300>>],
                                 !.seed = <<7>>]}

\* Mutant of InRange: only the lower end is enforced.
InRangeNoUpper(v, lo, hi) == lo <= v

\* ge=lo, le=hi
InRange(v, lo, hi) == lo <= v /\ v <= hi

\* The constraints of GenerateVideoRequest that pydantic enforces before the
\* handler is called.
Valid(r) ==
    /\ InRange(r.fps, FpsMin, FpsMax)
    /\ InRange(r.numFrames, NumFramesMin, NumFramesMax)
    /\ InRange(r.width, WidthMin, WidthMax)
    /\ InRange(r.height, HeightMin, HeightMax)

\* Paths of video files: a directory, a file name and, for the names the
\* adapter generates, the timestamp inside the name (-1 otherwise).
NoPath == [dir |-> "", name |-> "", ts |-> -1]

\* Paths a worker reports: one it may have written, one it never writes.
WorkerPath == [dir |-> "worker", name |-> "out.mp4", ts |-> -1]

MissingPath == [dir |-> "worker", name |-> "missing.mp4", ts |-> -1]

\* str(output_dir / f"fastvideo_{timestamp}.mp4")
GeneratedPath(dir, timestamp) == [dir |-> dir, name |-> "fastvideo_.mp4", ts |-> timestamp]

VideoPaths == {WorkerPath, MissingPath} \cup {GeneratedPath(DefaultOutputDir, t) : t \in 0..MaxMs}

\* Error texts are sequences of pieces; each signature the code looks for is
\* one piece.
Lower(piece) ==
    CASE piece = "Model" -> "model"
      [] piece = "CUDA out of memory" -> "cuda out of memory"
      [] piece = "OutOfMemoryError" -> "outofmemoryerror"
      [] piece = "No such file" -> "no such file"
      [] OTHER -> piece

\* error_msg.lower()
LowerText(text) == [i \in 1..Len(text) |-> Lower(text[i])]

\* signature in text
Contains(text, signature) == \E i \in 1..Len(text) : text[i] = signature

\* str(e) of what SamplingParam(...) or generator.generate_video(...) raises.
WorkerErrors ==
    {<<"boom">>, <<"No such file">>, <<"Model", "boom">>, <<"CUDA out of memory", "model">>,
     <<"No such file", "OutOfMemoryError">>}

\* str(e) of what VideoGenerator(...) raises.
LoadErrors == {<<"No such file">>, <<"boom">>}

\* What generator.generate_video returns: None, a dict (with or without
\* save_path, output_video_path, video and other keys), a list of frames
\* (empty or not), or a value of another type.  wrote tells whether the
\* worker wrote the file it reports.
Result(type, save_path, output_video_path, video, other, frames, wrote) ==
    [type |-> type, save_path |-> save_path, output_video_path |-> output_video_path,
     video |-> video, other |-> other, frames |-> frames, wrote |-> wrote]

NoResult == Result("unset", NoPath, NoPath, FALSE, FALSE, 0, FALSE)

WorkerResults ==
    {Result("none", NoPath, NoPath, FALSE, FALSE, 0, FALSE),
     Result("other", NoPath, NoPath, FALSE, FALSE, 0, FALSE),
     Result("list", NoPath, NoPath, FALSE, FALSE, 0, FALSE),
     Result("list", NoPath, NoPath, FALSE, FALSE, 2, FALSE),
     Result("dict", NoPath, NoPath, FALSE, FALSE, 0, FALSE),
     Result("dict", NoPath, NoPath, FALSE, TRUE, 0, FALSE),
     Result("dict", NoPath, NoPath, TRUE, FALSE, 2, FALSE),
     Result("dict", WorkerPath, NoPath, FALSE, FALSE, 0, TRUE),
     Result("dict", WorkerPath, NoPath, TRUE, FALSE, 2, FALSE),
     Result("dict", MissingPath, NoPath, FALSE, FALSE, 0, FALSE),
     Result("dict", NoPath, WorkerPath, FALSE, FALSE, 0, TRUE),
     Result("dict", MissingPath, WorkerPath, FALSE, TRUE, 0, TRUE)}

\* raise Exception("Generator returned empty results")
EmptyResults == <<"Generator returned empty results">>

\* not result
Falsy(res) ==
    \/ res.type = "none"
    \/ res.type = "list" /\ res.frames = 0
    \/ res.type = "dict" /\ res.save_path = NoPath /\ res.output_video_path = NoPath
          /\ ~res.video /\ ~res.other

\* result.get('save_path') or result.get('output_video_path')
DirectPath(res) == IF res.save_path # NoPath THEN res.save_path ELSE res.output_video_path

\* The body of an answer: the fields of GenerateVideoResponse for a 200, the
\* detail of an HTTPException (its fixed text, the error text and the path
\* put into it) otherwise.
Response(http, status, outputVideoPath, frames, durationMs, seed, warns, error, detail) ==
    [http |-> http, status |-> status, outputVideoPath |-> outputVideoPath, frames |-> frames,
     durationMs |-> durationMs, seed |-> seed, warnings |-> warns, error |-> error,
     detail |-> detail]

NoDetail == [text |-> "", msg |-> <<>>, path |-> NoPath]

NoResp == Response(0, "", NoPath, None, None, None, <<>>, None, NoDetail)

\* raise HTTPException(status_code=..., detail=f"...")
HTTPException(status_code, text, msg, path) ==
    Response(status_code, "", NoPath, None, None, None, <<>>, None,
             [text |-> text, msg |-> msg, path |-> path])

\* Mutant of RequestValidationError: the rejection is an error body with
\* status 200.
RequestValidationInBand ==
    [http |-> 200, status |-> "error", outputVideoPath |-> NoPath, frames |-> <<>>,
     durationMs |-> <<>>, seed |-> <<>>, warnings |-> <<>>, error |-> <<"validation error">>,
     detail |-> NoDetail]

\* What FastAPI answers when the body does not satisfy GenerateVideoRequest.
RequestValidationError == HTTPException(422, "validation error", <<>>, NoPath)

\* The local variables of a handler that has not started or has returned.
NoLocals ==
    [warnings |-> <<>>, result |-> NoResult, start_time |-> 0, duration_ms |-> 0,
     output_path |-> NoPath]

\* Mutant of Complete: a request without a seed is answered with the seed
\* handed to the worker.
CompleteWithSamplingSeed(r) ==
    [http |-> 200, status |-> "complete", outputVideoPath |-> local[r].output_path,
     frames |-> <<req[r].numFrames>>, durationMs |-> <<local[r].duration_ms>>,
     seed |-> IF req[r].seed = <<>> THEN <<-1>> ELSE req[r].seed,
     warnings |-> local[r].warnings, error |-> <<>>,
     detail |-> [text |-> "", msg |-> <<>>, path |-> [dir |-> "", name |-> "", ts |-> -1]]]

\* return GenerateVideoResponse(status="complete", ...)
Complete(r) ==
    Response(200, "complete", local[r].output_path, <<req[r].numFrames>>,
             <<local[r].duration_ms>>, req[r].seed, local[r].warnings, None, NoDetail)

\* Mutant of ErrorResponse: the error body leaves the error field out.
ErrorResponseWithoutError(r, e) ==
    [http |-> 200, status |-> "error", outputVideoPath |-> [dir |-> "", name |-> "", ts |-> -1],
     frames |-> <<>>, durationMs |-> <<>>, seed |-> <<>>, warnings |-> local[r].warnings,
     error |-> <<>>, detail |-> [text |-> "", msg |-> <<>>, path |-> [dir |-> "", name |-> "", ts |-> -1]]]

\* Mutant of ErrorResponse: the error body leaves the warnings out.
ErrorResponseWithoutWarnings(r, e) ==
    [http |-> 200, status |-> "error", outputVideoPath |-> [dir |-> "", name |-> "", ts |-> -1],
     frames |-> <<>>, durationMs |-> <<>>, seed |-> <<>>, warnings |-> <<>>,
     error |-> <<e>>, detail |-> [text |-> "", msg |-> <<>>, path |-> [dir |-> "", name |-> "", ts |-> -1]]]

\* except Exception as e: return GenerateVideoResponse(status="error", ...)
ErrorResponse(r, e) ==
    Response(200, "error", NoPath, None, None, None, local[r].warnings, <<e>>, NoDetail)

\* Mutant of Classify: the model signature is tested first.
ClassifyModelFirst(error_msg) ==
    IF Contains(error_msg, "No such file") \/ Contains(LowerText(error_msg), "model")
    THEN HTTPException(500, "Model not found or corrupted: ", error_msg, NoPath)
    ELSE IF Contains(error_msg, "CUDA out of memory") \/ Contains(error_msg, "OutOfMemoryError")
    THEN HTTPException(507, "CUDA OOM: Try reducing numFrames, resolution, or closing other GPU processes",
                       <<>>, NoPath)
    ELSE HTTPException(500, "Generation failed: ", error_msg, NoPath)

\* The except clause of the worker call: the answer for the error text.
Classify(error_msg) ==
    IF Contains(error_msg, "CUDA out of memory") \/ Contains(error_msg, "OutOfMemoryError")
    THEN HTTPException(507, "CUDA OOM: Try reducing numFrames, resolution, or closing other GPU processes",
                       <<>>, NoPath)
    ELSE IF Contains(error_msg, "No such file") \/ Contains(LowerText(error_msg), "model")
    THEN HTTPException(500, "Model not found or corrupted: ", error_msg, NoPath)
    ELSE HTTPException(500, "Generation failed: ", error_msg, NoPath)

\* Path(output_path).exists()
PathExists(path) == path \in VideoPaths /\ files[path] # ""

\* Mutant of LoopFree: handlers are run side by side.
LoopAlwaysFree == TRUE

\* generate_video and health_check are coroutines without an await: the
\* event loop runs one of them from its first line to its return before it
\* runs anything else.
LoopFree == running = "none"

\* Mutant of NeedsLoad: get_generator constructs a generator at every call.
NeedsLoadAlways == TRUE

\* if _generator is None
NeedsLoad == generator = 0

\* The handler goes on to its next step.
Goto(r, step) ==
    /\ rpc' = [rpc EXCEPT ![r] = step]
    /\ UNCHANGED <<resp, running>>

\* The request is answered: its coroutine returns and leaves the event loop.
Answer(r, response) ==
    /\ resp' = [resp EXCEPT ![r] = response]
    /\ rpc' = [rpc EXCEPT ![r] = "done"]
    /\ local' = [local EXCEPT ![r] = NoLocals]
    /\ running' = "none"

Did(r, effect) == effects' = [effects EXCEPT ![r] = effects[r] \cup {effect}]

\* A POST /generate request arrives with its body.
Receive(r) ==
    /\ rpc[r] = "new"
    /\ \E body \in Requests : req' = [req EXCEPT ![r] = body]
    /\ rpc' = [rpc EXCEPT ![r] = "received"]
    /\ UNCHANGED <<ms, generator, loadLog, loading, inGenerate, dirs, files, running, local,
                   worker, resp, effects, nhealth, health>>
    /\ UNCHANGED <<now, markerVars, waitVars, raised, loadError>>

\* The event loop takes the request up: the body is validated against
\* GenerateVideoRequest and, when valid, the handler starts (start_time,
\* warnings = []).
Validate(r) ==
    /\ rpc[r] = "received"
    /\ LoopFree
    /\ IF Valid(req[r])
       THEN /\ running' = r
            /\ rpc' = [rpc EXCEPT ![r] = "mkdir"]
            /\ \E t \in ms..MaxMs :
                   /\ ms' = t
                   /\ local' = [local EXCEPT ![r].start_time = t, ![r].warnings = <<>>]
            /\ UNCHANGED resp
       ELSE /\ Answer(r, RequestValidationError)
            /\ UNCHANGED ms
    /\ UNCHANGED <<generator, loadLog, loading, inGenerate, dirs, files, req, worker, effects,
                   nhealth, health>>
    /\ UNCHANGED <<now, markerVars, waitVars, raised, loadError>>

\* output_dir.mkdir(parents=True, exist_ok=True); a failure is caught by the
\* outer except Exception.
Mkdir(r) ==
    /\ rpc[r] = "mkdir"
    /\ \/ /\ dirs' = dirs \cup {req[r].outputDir}
          /\ Did(r, "mkdir")
          /\ Goto(r, "get_generator")
          /\ UNCHANGED local
       \/ /\ Answer(r, ErrorResponse(r, "mkdir failed"))
          /\ UNCHANGED <<dirs, effects>>
    /\ UNCHANGED <<ms, generator, loadLog, loading, inGenerate, files, req, worker, nhealth,
                   health>>
    /\ UNCHANGED <<now, markerVars, waitVars, raised, loadError>>

\* get_generator(): the test of _generator, and the start of the
\* VideoGenerator(...) construction when it is None.
GetGenerator(r) ==
    /\ rpc[r] = "get_generator"
    /\ IF NeedsLoad
       THEN /\ loading' = loading \cup {r}
            /\ Did(r, "load")
            /\ Goto(r, "loading")
            /\ UNCHANGED worker
       ELSE /\ worker' = [worker EXCEPT ![r] = generator]
            /\ Goto(r, "decode")
            /\ UNCHANGED <<loading, effects>>
    /\ UNCHANGED <<ms, generator, loadLog, inGenerate, dirs, files, req, local, nhealth, health>>
    /\ UNCHANGED <<now, markerVars, waitVars, raised, loadError>>

\* Mutant of LoadFinish: the answer to a failed construction leaves out the
\* text of the exception.
LoadFinishHidesError(r) ==
    /\ rpc[r] = "loading"
    /\ loading' = loading \ {r}
    /\ \/ /\ loadLog' = Append(loadLog, "ok")
          /\ generator' = Cardinality({i \in 1..Len(loadLog) : loadLog[i] = "ok"}) + 1
          /\ worker' = [worker EXCEPT ![r] = generator']
          /\ Goto(r, "decode")
          /\ UNCHANGED <<local, loadError>>
       \/ /\ loadLog' = Append(loadLog, "fail")
          /\ \E e \in LoadErrors :
                 /\ loadError' = [loadError EXCEPT ![r] = e]
                 /\ Answer(r, HTTPException(500, "Failed to load FastVideo model: ", None, NoPath))
          /\ UNCHANGED <<generator, worker>>
    /\ UNCHANGED <<ms, inGenerate, dirs, files, req, effects, nhealth, health>>
    /\ UNCHANGED <<now, markerVars, waitVars, raised>>

\* The construction ends: _generator is assigned and returned, or the
\* exception becomes an HTTPException with status 500.
LoadFinish(r) ==
    /\ rpc[r] = "loading"
    /\ loading' = loading \ {r}
    /\ \/ /\ loadLog' = Append(loadLog, "ok")
          /\ generator' = Cardinality({i \in 1..Len(loadLog) : loadLog[i] = "ok"}) + 1
          /\ worker' = [worker EXCEPT ![r] = generator']
          /\ Goto(r, "decode")
          /\ UNCHANGED <<local, loadError>>
       \/ /\ loadLog' = Append(loadLog, "fail")
          /\ \E e \in LoadErrors :
                 /\ loadError' = [loadError EXCEPT ![r] = e]
                 /\ Answer(r, HTTPException(500, "Failed to load FastVideo model: ", e, NoPath))
          /\ UNCHANGED <<generator, worker>>
    /\ UNCHANGED <<ms, inGenerate, dirs, files, req, effects, nhealth, health>>
    /\ UNCHANGED <<now, markerVars, waitVars, raised>>

\* warnings.append(f"Keyframe resized from {size} to ({width}, {height})")
ResizeWarning(size, width, height) ==
    [text |-> "Keyframe resized", from |-> size, to |-> <<width, height>>]

\* Mutant of Decode: every decoded keyframe is resized and reported.
DecodeResizesAlways(r) ==
    /\ rpc[r] = "decode"
    /\ LET k == req[r].keyframeBase64
       IN  CASE k.kind \in {"none", "empty"} ->
                    /\ Goto(r, "generate")
                    /\ UNCHANGED local
             [] k.kind = "undecodable" ->
                    Answer(r, HTTPException(400, "Failed to decode keyframe image: ",
                                            <<"cannot identify image file">>, NoPath))
             [] OTHER ->
                    /\ local' =
                           IF TRUE
                           THEN [local EXCEPT ![r].warnings =
                                     Append(@, ResizeWarning(k.size, req[r].width, req[r].height))]
                           ELSE local
                    /\ Goto(r, "generate")
    /\ UNCHANGED <<ms, generator, loadLog, loading, inGenerate, dirs, files, req, worker, effects,
                   nhealth, health>>
    /\ UNCHANGED <<now, markerVars, waitVars, raised, loadError>>

\* if request.keyframeBase64: decode it, and resize it when its size is not
\* the requested one; a failure becomes an HTTPException with status 400.
Decode(r) ==
    /\ rpc[r] = "decode"
    /\ LET k == req[r].keyframeBase64
       IN  CASE k.kind \in {"none", "empty"} ->
                    /\ Goto(r, "generate")
                    /\ UNCHANGED local
             [] k.kind = "undecodable" ->
                    Answer(r, HTTPException(400, "Failed to decode keyframe image: ",
                                            <<"cannot identify image file">>, NoPath))
             [] OTHER ->
                    /\ local' =
                           IF k.size # <<req[r].width, req[r].height>>
                           THEN [local EXCEPT ![r].warnings =
                                     Append(@, ResizeWarning(k.size, req[r].width, req[r].height))]
                           ELSE local
                    /\ Goto(r, "generate")
    /\ UNCHANGED <<ms, generator, loadLog, loading, inGenerate, dirs, files, req, worker, effects,
                   nhealth, health>>
    /\ UNCHANGED <<now, markerVars, waitVars, raised, loadError>>

\* SamplingParam(...) is built and generator.generate_video(...) is entered.
GenerateCall(r) ==
    /\ rpc[r] = "generate"
    /\ inGenerate' = inGenerate \cup {r}
    /\ Did(r, "generate")
    /\ Goto(r, "generating")
    /\ UNCHANGED <<ms, generator, loadLog, loading, dirs, files, req, local, worker, nhealth,
                   health>>
    /\ UNCHANGED <<now, markerVars, waitVars, raised, loadError>>

\* Mutant of GenerateReturn: a worker call that raises makes the adapter
\* drop the shared generator.
GenerateReturnDropsWorker(r) ==
    /\ rpc[r] = "generating"
    /\ inGenerate' = inGenerate \ {r}
    /\ \/ /\ \E e \in WorkerErrors :
                 /\ raised' = [raised EXCEPT ![r] = e]
                 /\ Answer(r, Classify(e))
          /\ generator' = 0
          /\ UNCHANGED <<ms, files>>
       \/ \E res \in WorkerResults :
              /\ files' = IF res.wrote THEN [files EXCEPT ![WorkerPath] = r] ELSE files
              /\ UNCHANGED generator
              /\ IF Falsy(res)
                 THEN /\ raised' = [raised EXCEPT ![r] = EmptyResults]
                      /\ Answer(r, Classify(EmptyResults))
                      /\ UNCHANGED ms
                 ELSE /\ \E t \in ms..MaxMs :
                             /\ ms' = t
                             /\ local' = [local EXCEPT ![r].result = res,
                                                       ![r].duration_ms = t - local[r].start_time]
                      /\ Goto(r, "resolve")
                      /\ UNCHANGED raised
    /\ UNCHANGED <<loadLog, loading, dirs, req, worker, effects, nhealth, health>>
    /\ UNCHANGED <<now, markerVars, waitVars, loadError>>

\* generator.generate_video(...) raises or returns; `if not result` raises
\* as well; the except clause classifies; otherwise duration_ms is taken.
GenerateReturn(r) ==
    /\ rpc[r] = "generating"
    /\ inGenerate' = inGenerate \ {r}
    /\ \/ /\ \E e \in WorkerErrors :
                 /\ raised' = [raised EXCEPT ![r] = e]
                 /\ Answer(r, Classify(e))
          /\ UNCHANGED <<ms, files>>
       \/ \E res \in WorkerResults :
              /\ files' = IF res.wrote THEN [files EXCEPT ![WorkerPath] = r] ELSE files
              /\ IF Falsy(res)
                 THEN /\ raised' = [raised EXCEPT ![r] = EmptyResults]
                      /\ Answer(r, Classify(EmptyResults))
                      /\ UNCHANGED ms
                 ELSE /\ \E t \in ms..MaxMs :
                             /\ ms' = t
                             /\ local' = [local EXCEPT ![r].result = res,
                                                       ![r].duration_ms = t - local[r].start_time]
                      /\ Goto(r, "resolve")
                      /\ UNCHANGED raised
    /\ UNCHANGED <<generator, loadLog, loading, dirs, req, worker, effects, nhealth, health>>
    /\ UNCHANGED <<now, markerVars, waitVars, loadError>>

\* The result needs a file written by the adapter: a dict without a path, or
\* a list.
NeedsSave(res) == res.type = "list" \/ (res.type = "dict" /\ DirectPath(res) = NoPath)

\* The frames the adapter saves: result['video'] or the list itself.
HasFrames(res) == res.type = "list" \/ res.video

\* Lines 205-235: the output path is taken from the result, or a file name is
\* generated from the clock and the frames are saved with imageio.mimsave; a
\* result without path and frames, a result of another type and a failure of
\* mimsave raise an exception that the outer except Exception catches.
Resolve(r) ==
    /\ rpc[r] = "resolve"
    /\ LET res == local[r].result
       IN  CASE res.type = "dict" /\ DirectPath(res) # NoPath ->
                    /\ local' = [local EXCEPT ![r].output_path = DirectPath(res)]
                    /\ Goto(r, "check")
                    /\ UNCHANGED <<ms, files, effects>>
             [] NeedsSave(res) /\ HasFrames(res) ->
                    \E t \in ms..MaxMs :
                        /\ ms' = t
                        /\ \/ /\ files' = [files EXCEPT ![GeneratedPath(req[r].outputDir, t)] = r]
                              /\ local' = [local EXCEPT ![r].output_path =
                                                            GeneratedPath(req[r].outputDir, t)]
                              /\ Did(r, "save")
                              /\ Goto(r, "check")
                           \/ /\ Answer(r, ErrorResponse(r, "mimsave failed"))
                              /\ UNCHANGED <<files, effects>>
             [] NeedsSave(res) /\ ~HasFrames(res) ->
                    /\ \E t \in ms..MaxMs : ms' = t
                    /\ Answer(r, ErrorResponse(r, "Result dict missing save_path and video data"))
                    /\ UNCHANGED <<files, effects>>
             [] OTHER ->
                    /\ Answer(r, ErrorResponse(r, "Unexpected result type"))
                    /\ UNCHANGED <<ms, files, effects>>
    /\ UNCHANGED <<generator, loadLog, loading, inGenerate, dirs, req, worker, nhealth, health>>
    /\ UNCHANGED <<now, markerVars, waitVars, raised, loadError>>

\* Mutant of Check: the answer is Complete whether or not the file exists.
CheckSkipped(r) ==
    /\ rpc[r] = "check"
    /\ Answer(r, Complete(r))
    /\ UNCHANGED <<ms, generator, loadLog, loading, inGenerate, dirs, files, req, worker, effects,
                   nhealth, health>>
    /\ UNCHANGED <<now, markerVars, waitVars, raised, loadError>>

\* if not Path(output_path).exists(): raise HTTPException(500, ...);
\* otherwise return GenerateVideoResponse(status="complete", ...).
Check(r) ==
    /\ rpc[r] = "check"
    /\ IF PathExists(local[r].output_path)
       THEN Answer(r, Complete(r))
       ELSE Answer(r, HTTPException(500, "Video generation succeeded but output file not created: ",
                                    <<>>, local[r].output_path))
    /\ UNCHANGED <<ms, generator, loadLog, loading, inGenerate, dirs, files, req, worker, effects,
                   nhealth, health>>
    /\ UNCHANGED <<now, markerVars, waitVars, raised, loadError>>

NoHealth == [status |-> "", modelLoaded |-> FALSE]

\* Mutant of Health: the probe loads the model.
HealthLoads ==
    /\ LoopFree
    /\ nhealth < MaxHealth
    /\ nhealth' = nhealth + 1
    /\ generator' = (IF generator = 0 THEN 1 ELSE generator)
    /\ health' = [status |-> "ok", modelLoaded |-> TRUE]
    /\ UNCHANGED <<ms, loadLog, loading, inGenerate, dirs, files, running, rpc, req, local,
                   worker, resp, effects>>
    /\ UNCHANGED <<now, markerVars, waitVars, raised, loadError>>

\* GET /health: the answer, with modelLoaded = (_generator is not None).
Health ==
    /\ LoopFree
    /\ nhealth < MaxHealth
    /\ nhealth' = nhealth + 1
    /\ health' = [status |-> "ok", modelLoaded |-> generator # 0]
    /\ UNCHANGED <<ms, generator, loadLog, loading, inGenerate, dirs, files, running, rpc, req,
                   local, worker, resp, effects>>
    /\ UNCHANGED <<now, markerVars, waitVars, raised, loadError>>

InitGen ==
    /\ ms = 0
    /\ generator = 0
    /\ loadLog = <<>>
    /\ loading = {}
    /\ inGenerate = {}
    /\ dirs = {}
    /\ files = [x \in VideoPaths |-> ""]
    /\ running = "none"
    /\ rpc = [r \in Reqs |-> "new"]
    /\ req = [r \in Reqs |-> DefaultRequest]
    /\ local = [r \in Reqs |-> NoLocals]
    /\ worker = [r \in Reqs |-> 0]
    /\ resp = [r \in Reqs |-> NoResp]
    /\ effects = [r \in Reqs |-> {}]
    /\ raised = [r \in Reqs |-> <<>>]
    /\ loadError = [r \in Reqs |-> <<>>]
    /\ nhealth = 0
    /\ health = NoHealth

InitWait ==
    /\ wpc = "idle"
    /\ timeout = 0
    /\ invoked = 0
    /\ start_time = 0
    /\ last_progress = 0
    /\ ws = "none"
    /\ lastMsg = NoMsg
    /\ wret = "none"
    /\ wlog = <<>>
    /\ markerAtInvoke = FALSE

InitMarker ==
    /\ dirExists = FALSE
    /\ fs = [x \in AllPaths |-> NoFile]
    /\ pc = [p \in Procs |-> "idle"]
    /\ args = [p \in Procs |-> NoArgs]
    /\ payload = [p \in Procs |-> <<>>]
    /\ handle = [p \in Procs |-> NoHandle]
    /\ faults = [p \in Procs |-> {}]
    /\ log = [p \in Procs |-> <<>>]
    /\ ret = [p \in Procs |-> "none"]
    /\ history = [p \in Procs |-> <<>>]
    /\ ncalls = 0

Init ==
    /\ now = 0
    /\ InitMarker
    /\ InitWait
    /\ InitGen

Next ==
    \/ \E p \in Procs : Call(p)
    \/ \E p \in Procs : Makedirs(p)
    \/ \E p \in Procs : OpenTmp(p)
    \/ \E p \in Procs : DumpTmp(p)
    \/ \E p \in Procs : Replace(p)
    \/ \E p \in Procs : OpenFinal(p)
    \/ \E p \in Procs : DumpFinal(p)
    \/ \E p \in Procs : RemoveTmp(p)

Spec == Init /\ [][Next]_vars

\* The consumer, with the producer seen only through the marker it publishes.
NextWait ==
    \/ WaitInvoke
    \/ Connect
    \/ Iterate
    \/ TimeoutExit
    \/ MarkerAppears

SpecWait == Init /\ [][NextWait]_vars

\* The adapter: POST /generate requests and GET /health probes.
NextGen ==
    \/ \E r \in Reqs : Receive(r)
    \/ \E r \in Reqs : Validate(r)
    \/ \E r \in Reqs : Mkdir(r)
    \/ \E r \in Reqs : GetGenerator(r)
    \/ \E r \in Reqs : LoadFinish(r)
    \/ \E r \in Reqs : Decode(r)
    \/ \E r \in Reqs : GenerateCall(r)
    \/ \E r \in Reqs : GenerateReturn(r)
    \/ \E r \in Reqs : Resolve(r)
    \/ \E r \in Reqs : Check(r)
    \/ Health

SpecGen == Init /\ [][NextGen]_vars

\* ------------------------------------------------------------- properties
Started(p) == pc[p] # "idle"

Returned(p) == pc[p] = "returned"

\* Producer p is the only one that has called write_done_marker.
Alone(p) == \A q \in Procs \ {p} : pc[q] = "idle"

\* The marker of p's current call, as Read returns it.
OwnMarker(p) == [status |-> "ok", marker |-> payload[p]]

\* C1: during one write_done_marker call whose temporary path differs from
\* the final path, a reader that looks only at the final path finds no marker
\* or a complete, parseable one, on every path through the call, the
\* fallback included.
C1_ReaderNeverSeesPartial ==
    \A p \in Procs :
        (ncalls = 1 /\ Started(p) /\ tmp_path(p) # final_path(p))
            => Read(args[p].prefix).status # "corrupt"

\* C2: when write_done_marker is called again in sequence for the same
\* prefix and no file operation fails, every call returns True and the final
\* marker holds exactly the payload of the latest call.
C2_IdempotentPublish ==
    \A p \in Procs :
        (Returned(p) /\ history[p] # <<>> /\ history[p][1].clean /\ faults[p] = {})
            => /\ history[p][1].ret = "True"
               /\ ret[p] = "True"
               /\ Read(args[p].prefix) = OwnMarker(p)

\* A second call has returned, without failures, with a payload that differs
\* from the payload of the first call and has no FrameCount.
C2_Witness ==
    \E p \in Procs :
        /\ Returned(p) /\ history[p] # <<>> /\ history[p][1].clean /\ faults[p] = {}
        /\ args[p].frame_count = <<>>
        /\ Len(history[p][1].payload) = 2
        /\ Read(args[p].prefix) = OwnMarker(p)

\* C3: when os.replace fails (and the direct write does not), the call
\* returns True, the final path holds the complete marker, the degraded path
\* is reported by its own log line, and the temporary file is gone unless
\* its removal failed.
C3_FallbackSafety ==
    \A p \in Procs :
        (Returned(p) /\ Alone(p) /\ "replace" \in faults[p] /\ faults[p] \cap FallbackWriteOps = {})
            => /\ ret[p] = "True"
               /\ log[p] = <<"rename_failed", "fallback">>
               /\ Read(args[p].prefix) = OwnMarker(p)
               /\ "remove" \notin faults[p] => ~fs[tmp_path(p)].exists

\* C3, for calls whose temporary path differs from the final path.
C3_FallbackSafetyDistinctTmp ==
    \A p \in Procs :
        (Returned(p) /\ Alone(p) /\ "replace" \in faults[p] /\ faults[p] \cap FallbackWriteOps = {}
            /\ tmp_path(p) # final_path(p))
            => /\ ret[p] = "True"
               /\ log[p] = <<"rename_failed", "fallback">>
               /\ Read(args[p].prefix) = OwnMarker(p)
               /\ "remove" \notin faults[p] => ~fs[tmp_path(p)].exists

\* C4: a call returns False exactly when a step of the atomic path failed and
\* the direct write of the final marker failed too, and then the command
\* line exits with 2; it returns True only when the replace or the direct
\* write of the final marker went through, and a lone call that returns on
\* the atomic path leaves its complete marker at the final path.
C4_FailurePropagated ==
    \A p \in Procs :
        Returned(p) =>
            /\ ret[p] = "False" <=> (faults[p] \cap AtomicOps # {} /\ faults[p] \cap FallbackWriteOps # {})
            /\ ret[p] = "False" => ExitCode(ret[p]) = 2
            /\ ret[p] = "True" => ExitCode(ret[p]) = 0
            /\ ret[p] = "True" => (faults[p] \cap AtomicOps = {} \/ faults[p] \cap FallbackWriteOps = {})
            /\ (ret[p] = "True" /\ faults[p] = {} /\ Alone(p)) => Read(args[p].prefix) = OwnMarker(p)

\* The replace failed, the direct write failed, the call returned False.
C4_Witness ==
    \E p \in Procs :
        /\ Returned(p) /\ ret[p] = "False"
        /\ "replace" \in faults[p] /\ "dump_final" \in faults[p]
        /\ log[p] = <<"rename_failed", "failed">>

\* C5: in every call, whatever prefix and tmp_ext it was given, the temporary
\* path differs from the final path, so the file being written is never the
\* file readers poll.
C5_TmpNeverFinal ==
    \A p \in Procs :
        /\ Started(p) => tmp_path(p) # final_path(p)
        /\ pc[p] = "dump_tmp" => handle[p] # final_path(p)

\* C6: two calls for different artifact sets share no temporary or final
\* path, and once both have returned True each artifact set has its own
\* complete marker with its own payload.
C6_NoInterference ==
    \A p, q \in Procs :
        (p # q /\ Started(p) /\ Started(q) /\ args[p].prefix # args[q].prefix)
            => /\ {tmp_path(p), final_path(p)} \cap {tmp_path(q), final_path(q)} = {}
               /\ (Returned(p) /\ Returned(q) /\ ret[p] = "True" /\ ret[q] = "True")
                      => (Read(args[p].prefix) = OwnMarker(p) /\ Read(args[q].prefix) = OwnMarker(q))

\* C6, for calls that both use the default temporary extension and in which
\* no file operation fails.
C6_NoInterferenceDefaultExt ==
    \A p, q \in Procs :
        (p # q /\ Started(p) /\ Started(q) /\ args[p].prefix # args[q].prefix
            /\ args[p].tmp_ext = DefaultTmpExt /\ args[q].tmp_ext = DefaultTmpExt)
            => /\ {tmp_path(p), final_path(p)} \cap {tmp_path(q), final_path(q)} = {}
               /\ (Returned(p) /\ Returned(q) /\ faults[p] = {} /\ faults[q] = {})
                      => (Read(args[p].prefix) = OwnMarker(p) /\ Read(args[q].prefix) = OwnMarker(q))

\* An `executed` event, and an `error` event whose data is absent or an object.
IsExecutedEvent(m) == m.raw = "object" /\ m.type = "executed"

IsErrorEvent(m) == m.raw = "object" /\ m.type = "error" /\ m.data # "nonobject"

IsTerminalEvent(m) == IsExecutedEvent(m) \/ IsErrorEvent(m)

Connected == ws # "none"

\* This step is a round of the loop (the only other step a wait in its loop
\* sees is the publication of the marker, which changes fs).
RoundTaken == wpc = "loop" /\ now - start_time < timeout /\ fs' = fs

\* ws.close() was called in this step and did not raise.
CloseSucceeds == ws' = "closed"

C8_ExecutedReturnsSuccess ==
    (IsExecutedEvent(lastMsg) /\ now - start_time < timeout)
        => (wpc = "done" /\ wret = "True")

\* C8, as far as it holds: when ws.close() does not raise, the wait ends at
\* the `executed` event with True and consumes nothing after it; the wait is
\* still in its loop after an `executed` event only when ws.close() raised.
C8_ExecutedEndsWait ==
    /\ []((IsExecutedEvent(lastMsg) /\ wpc = "loop") => ws = "close_failed")
    /\ []((IsExecutedEvent(lastMsg) /\ wret = "True") => wlog = <<Line("complete", "")>>)
    /\ [][(RoundTaken /\ IsExecutedEvent(lastMsg') /\ CloseSucceeds)
              => (wpc' = "done" /\ wret' = "True")]_vars

ErrorLine(m) ==
    Line("error", IF m.data = "absent" \/ m.emsg = "" THEN "Unknown error" ELSE m.emsg)

IsNonTerminalEvent(m) == m.raw = "object" /\ m.type \in {"executing", "progress"}

\* C11: receiving an `executing` or `progress` event never changes the
\* outcome of the wait: the round of the loop that receives one leaves the
\* wait in its loop with the return value, the connection, the deadline and
\* the printed outcome lines as they were, so what ends the wait is what
\* would have ended it without the event.
C11_NonTerminalKeepsOutcome ==
    [][(wpc = "loop" /\ now - start_time < timeout /\ fs' = fs /\ IsNonTerminalEvent(lastMsg'))
           => (wpc' = "loop" /\ wret' = wret /\ ws' = ws /\ wlog' = wlog
               /\ timeout' = timeout /\ start_time' = start_time)]_vars

\* A progress event was received and shown, and the wait then ended with
\* success at an `executed` event.
C11_Witness ==
    /\ wpc = "done" /\ last_progress = 1 /\ IsExecutedEvent(lastMsg)
    /\ wret = "True" /\ wlog = <<Line("complete", "")>>

\* C12: when the wait has returned after opening its connection (at a
\* terminal event or at the deadline), the connection is closed.
C12_ClosedOnEveryReturn ==
    (wpc = "done" /\ Connected) => ws = "closed"

\* C12, as far as it holds: every return after the connection was opened is
\* preceded by a call of ws.close(); the connection is closed unless that
\* call raised.
C12_CloseCalledOnEveryReturn ==
    /\ (wpc = "done" /\ Connected) => ws \in {"closed", "close_failed"}
    /\ wpc = "loop" => ws \in {"open", "close_failed"}

\* What ended a wait that has returned, told by the line of the return
\* statement it took: an `executed` event (line 147), an `error` event (line
\* 153), the deadline (line 163), or a connection error, the outer handler
\* (line 167).
TerminatingCondition ==
    LET last == IF wlog = <<>> THEN "" ELSE wlog[Len(wlog)].line
    IN  IF last = "complete" THEN "executed"
        ELSE IF last = "error" THEN "error"
        ELSE IF last = "timeout" THEN "timeout"
        ELSE "connect"

Conditions == {"connect", "executed", "error", "timeout"}

\* The value each return statement of wait_for_completion gives.
OutcomeFor(c) == IF c = "executed" THEN "True" ELSE "False"

OutOfRange(body) ==
    \/ body.fps < FpsMin \/ body.fps > FpsMax
    \/ body.numFrames < NumFramesMin \/ body.numFrames > NumFramesMax
    \/ body.width < WidthMin \/ body.width > WidthMax
    \/ body.height < HeightMin \/ body.height > HeightMax

\* The request has arrived.
Arrived(r) == rpc[r] # "new"

Answered(r) == rpc[r] = "done"

\* C14: a /generate request with fps, numFrames, width or height out of its
\* range is rejected with the request-validation error and never enters the
\* handler: no directory is made, no construction of the worker is started,
\* no generation is called and no file is saved on its behalf, and the step
\* that rejects it leaves the worker, the directories and the files as they
\* were.
C14_ValidationShortCircuit ==
    /\ [](\A r \in Reqs :
              (Arrived(r) /\ OutOfRange(req[r]))
                  => /\ rpc[r] \in {"received", "done"}
                     /\ effects[r] = {} /\ worker[r] = 0 /\ r \notin loading /\ r \notin inGenerate
                     /\ Answered(r) => resp[r] = RequestValidationError)
    /\ [][\A r \in Reqs :
              (OutOfRange(req[r]) /\ rpc[r] = "received" /\ rpc'[r] = "done")
                  => UNCHANGED <<generator, loadLog, loading, inGenerate, dirs, files>>]_vars

\* A request with numFrames = 400 was rejected; no directory exists and the
\* worker has not been created.
C14_Witness ==
    /\ Answered("r1") /\ req["r1"].numFrames = 400 /\ resp["r1"].http = 422
    /\ dirs = {} /\ generator = 0 /\ loadLog = <<>>

\* Constructions of the worker that succeeded.
Loaded == {i \in 1..Len(loadLog) : loadLog[i] = "ok"}

\* The request is not being handled: it has not arrived, it waits for the
\* event loop, or it has been answered.
Outside(r) == rpc[r] \in {"new", "received", "done"}

\* C15: the shared worker is created at most once: at most one request is
\* inside the VideoGenerator construction at a time, no construction is
\* started once the worker exists, while one request constructs it every
\* other request waits outside its handler, and every request that got a
\* worker got the one shared instance.
C15_SingleInitialisation ==
    /\ Cardinality(loading) <= 1
    /\ Cardinality(Loaded) <= 1
    /\ generator \in {0, 1}
    /\ generator # 0 => loading = {}
    /\ \A r \in loading : \A q \in Reqs \ {r} : Outside(q)
    /\ \A r \in Reqs : worker[r] # 0 => worker[r] = generator

\* Two requests were served by one construction of the worker: the second
\* found the instance the first had created.
C15_Witness ==
    /\ Answered("r1") /\ Answered("r2")
    /\ "generate" \in effects["r1"] /\ "generate" \in effects["r2"]
    /\ "load" \in effects["r1"] /\ "load" \notin effects["r2"]
    /\ loadLog = <<"ok">> /\ worker["r1"] = 1 /\ worker["r2"] = 1

\* C16: once a construction of the worker has failed, no request starts
\* another one: a failed construction is the last entry of the log and
\* nothing is being constructed after it.
C16_FailureCached ==
    \A i \in 1..Len(loadLog) :
        loadLog[i] = "fail" => (i = Len(loadLog) /\ loading = {})

\* C17: at most one request is inside generator.generate_video, and while
\* one is, every other request is outside its handler.
C17_GenerationExclusive ==
    /\ Cardinality(inGenerate) <= 1
    /\ \A r \in inGenerate : running = r /\ \A q \in Reqs \ {r} : Outside(q)

\* One request is inside generator.generate_video while the other, a valid
\* one, has arrived and waits.
C17_Witness ==
    /\ inGenerate = {"r2"} /\ rpc["r2"] = "generating"
    /\ rpc["r1"] = "received" /\ ~OutOfRange(req["r1"])

\* C18: GET /health never starts a construction of the worker and leaves the
\* worker and every request as they were; its modelLoaded is true exactly
\* when the shared instance exists.
C18_HealthReadsOnly ==
    [][nhealth' # nhealth
           => /\ UNCHANGED <<generator, loadLog, loading, inGenerate, worker, effects, rpc, resp>>
              /\ health'.modelLoaded = (generator # 0)
              /\ health'.modelLoaded = (Loaded # {})]_vars

\* A probe answered modelLoaded = true after a request had created the
\* worker.
C18_Witness ==
    /\ nhealth > 0 /\ health.modelLoaded /\ generator = 1 /\ loadLog = <<"ok">>

\* The error text has the resource-exhaustion signature, the model signature.
HasOomSignature(text) ==
    \E i \in 1..Len(text) : text[i] \in {"CUDA out of memory", "OutOfMemoryError"}

HasModelSignature(text) ==
    \E i \in 1..Len(text) : text[i] \in {"No such file", "model", "Model"}

\* C19: a request whose worker call raised is answered by the class of the
\* error text, in a fixed order: resource exhaustion (status 507) when the
\* text has that signature, also when it has the model signature as well;
\* else model unavailable when it has the model signature; else a generic
\* generation failure; the last two carry the raw text.
C19_ClassificationOrder ==
    \A r \in Reqs :
        (Answered(r) /\ raised[r] # <<>>)
            => IF HasOomSignature(raised[r])
               THEN resp[r].http = 507 /\ resp[r].detail.msg = <<>>
                    /\ resp[r].detail.text \notin {"Model not found or corrupted: ", "Generation failed: "}
               ELSE IF HasModelSignature(raised[r])
               THEN resp[r].http = 500 /\ resp[r].detail.text = "Model not found or corrupted: "
                    /\ resp[r].detail.msg = raised[r]
               ELSE resp[r].http = 500 /\ resp[r].detail.text = "Generation failed: "
                    /\ resp[r].detail.msg = raised[r]

\* An error text with both signatures was answered as resource exhaustion.
C19_Witness ==
    /\ Answered("r1") /\ raised["r1"] = <<"CUDA out of memory", "model">>
    /\ resp["r1"].http = 507

\* C20: a request is answered Complete only with an output path that exists;
\* at the check, a path that does not exist makes the answer the failure
\* "output file not created" (status 500), whatever the worker returned.
C20_CompleteOnlyIfExists ==
    /\ [](\A r \in Reqs :
              resp[r].status = "complete"
                  => (resp[r].outputVideoPath \in VideoPaths /\ files[resp[r].outputVideoPath] # ""))
    /\ [][\A r \in Reqs :
              (rpc[r] = "check" /\ rpc'[r] = "done")
                  => IF local[r].output_path \in VideoPaths /\ files[local[r].output_path] # ""
                     THEN resp'[r].status = "complete"
                          /\ resp'[r].outputVideoPath = local[r].output_path
                     ELSE resp'[r].status = "" /\ resp'[r].http = 500
                          /\ resp'[r].detail.text = "Video generation succeeded but output file not created: "
                          /\ resp'[r].detail.path = local[r].output_path]_vars

\* The worker returned a path to a file that does not exist, and the request
\* failed with "output file not created".
C20_Witness ==
    /\ Answered("r1") /\ resp["r1"].http = 500 /\ resp["r1"].detail.path = MissingPath
    /\ files[MissingPath] = "" /\ "generate" \in effects["r1"]

\* The request carries no seed image.
NoSeedImage(body) == body.keyframeBase64.kind \in {"none", "empty"}

\* C21: for a request without a seed image whose worker returned a direct
\* path to an existing file, the answer is Complete with exactly that path,
\* the request's own numFrames and seed (None when it gave none) and no
\* warnings; and every Complete answer echoes numFrames and seed.
C21_SuccessPath ==
    /\ [](\A r \in Reqs :
              resp[r].status = "complete"
                  => /\ resp[r].http = 200
                     /\ resp[r].frames = <<req[r].numFrames>>
                     /\ resp[r].seed = req[r].seed
                     /\ NoSeedImage(req[r]) => resp[r].warnings = <<>>)
    /\ [][\A r \in Reqs :
              (/\ rpc[r] = "check" /\ rpc'[r] = "done"
               /\ NoSeedImage(req[r])
               /\ local[r].result.type = "dict"
               /\ local[r].output_path \in {local[r].result.save_path, local[r].result.output_video_path}
               /\ local[r].output_path \in VideoPaths /\ files[local[r].output_path] # "")
                  => /\ resp'[r].status = "complete" /\ resp'[r].http = 200
                     /\ resp'[r].outputVideoPath = local[r].output_path
                     /\ resp'[r].frames = <<req[r].numFrames>>
                     /\ resp'[r].seed = req[r].seed
                     /\ resp'[r].warnings = <<>>
                     /\ resp'[r].error = <<>>]_vars

\* The default request, without seed and seed image, was answered Complete
\* with the path the worker reported.
C21_Witness ==
    /\ Answered("r1") /\ req["r1"] = DefaultRequest
    /\ resp["r1"].status = "complete" /\ resp["r1"].outputVideoPath = WorkerPath
    /\ resp["r1"].frames = <<NumFramesDefault>> /\ resp["r1"].seed = <<>>
    /\ resp["r1"].warnings = <<>>

\* C22: a request with a decodable seed image whose size differs from the
\* requested width and height is still served, and what it is answered with
\* (Complete, or an in-band error after the decoding) carries exactly one
\* warning, the one describing the resize; with a seed image of the requested
\* size it carries no warning.
C22_KeyframeWarning ==
    \A r \in Reqs :
        (Answered(r) /\ req[r].keyframeBase64.kind = "image"
         /\ (resp[r].status = "complete" \/ (resp[r].status = "error" /\ "generate" \in effects[r])))
            => IF req[r].keyframeBase64.size # <<req[r].width, req[r].height>>
               THEN resp[r].warnings =
                        <<[text |-> "Keyframe resized", from |-> req[r].keyframeBase64.size,
                           to |-> <<req[r].width, req[r].height>>]>>
               ELSE resp[r].warnings = <<>>

\* A request with a 300x300 seed image and the default 1280x544 size was
\* answered Complete with the one warning.
C22_Witness ==
    /\ Answered("r1") /\ resp["r1"].status = "complete"
    /\ req["r1"].keyframeBase64 = [kind |-> "image", size |-> <<300, 300>>]
    /\ resp["r1"].warnings =
           <<[text |-> "Keyframe resized", from |-> <<300, 300>>,
              to |-> <<WidthDefault, HeightDefault>>]>>

\* The answer is a GenerateVideoResponse body (returned, not raised).
IsResultBody(response) == response.status \in {"complete", "error"}

\* C23: every GenerateVideoResponse body is one of two variants: status
\* "complete" with outputVideoPath set and error None, or status "error"
\* with error set and outputVideoPath None; this holds with and without
\* warnings in the body.
C23_OneVariant ==
    \A r \in Reqs :
        IsResultBody(resp[r])
            => /\ resp[r].http = 200
               /\ resp[r].status = "complete"
                      => (resp[r].outputVideoPath # NoPath /\ resp[r].error = <<>>)
               /\ resp[r].status = "error"
                      => (resp[r].error # <<>> /\ resp[r].outputVideoPath = NoPath
                          /\ resp[r].frames = <<>>)

\* One request was answered with an error body that carries a warning, the
\* other with a complete body.
C23_Witness ==
    /\ resp["r1"].status = "error" /\ resp["r1"].warnings # <<>> /\ resp["r1"].error # <<>>
    /\ resp["r2"].status = "complete" /\ resp["r2"].outputVideoPath # NoPath

\* The request got as far as the decoding of a seed image that does not
\* decode: it is valid, its directory was made and it was given the worker.
DecodeFailed(r) ==
    /\ Answered(r) /\ ~OutOfRange(req[r]) /\ req[r].keyframeBase64.kind = "undecodable"
    /\ "mkdir" \in effects[r] /\ worker[r] # 0

WarningsAfterDecode(body) ==
    IF body.keyframeBase64.kind = "image"
       /\ body.keyframeBase64.size # <<body.width, body.height>>
    THEN <<[text |-> "Keyframe resized", from |-> body.keyframeBase64.size,
            to |-> <<body.width, body.height>>]>>
    ELSE <<>>

\* C25: an exception that reaches the top level of the handler (from mkdir,
\* from the resolution of the result, from mimsave) is answered with status
\* 200 and an error body carrying the text of the exception and the
\* warnings accumulated so far; the handler has then left the event loop, so
\* that other requests are served.
C25_TopLevelCatch ==
    /\ \A r \in Reqs :
           resp[r].status = "error"
               => /\ Answered(r) /\ resp[r].http = 200 /\ running # r
                  /\ IF "mkdir" \notin effects[r]
                     THEN resp[r].error = <<"mkdir failed">> /\ resp[r].warnings = <<>>
                     ELSE /\ "generate" \in effects[r]
                          /\ resp[r].error \in {<<"mimsave failed">>, <<"Unexpected result type">>,
                                                <<"Result dict missing save_path and video data">>}
                          /\ resp[r].warnings = WarningsAfterDecode(req[r])
    /\ (\A r \in Reqs : Outside(r)) => running = "none"

\* A request failed in mimsave after its keyframe was resized and was
\* answered with the error and the warning; the other request, handled after
\* it with the worker the first had created, was answered Complete.
C25_Witness ==
    /\ resp["r1"].status = "error" /\ resp["r1"].error = <<"mimsave failed">>
    /\ resp["r1"].warnings # <<>> /\ "load" \in effects["r1"]
    /\ resp["r2"].status = "complete" /\ "load" \notin effects["r2"] /\ worker["r2"] = 1

\* The worker's result carried neither an output path nor frames: it was
\* falsy (None, {} or []), or a dict with other keys only.
EmptyResultAnswered(r) ==
    /\ Answered(r)
    /\ \/ raised[r] = EmptyResults
       \/ resp[r].error = <<"Result dict missing save_path and video data">>

\* C26: a worker result without output path and frames is never answered
\* Complete, and every shape of such a result is answered with the same
\* failure: two requests whose results were of this kind get the same HTTP
\* status and the same kind of body.
C26_EmptyResultSameFailure ==
    \A r, q \in Reqs :
        (EmptyResultAnswered(r) /\ EmptyResultAnswered(q))
            => /\ resp[r].status # "complete"
               /\ resp[r].http = resp[q].http
               /\ resp[r].status = resp[q].status
               /\ resp[r].detail.text = resp[q].detail.text

\* C26, as far as it holds: such a result is never answered Complete; a
\* falsy result is answered with status 500 "Generation failed", a dict with
\* other keys only with a status 200 error body.
C26_EmptyResultNeverComplete ==
    \A r \in Reqs :
        EmptyResultAnswered(r)
            => /\ resp[r].status # "complete"
               /\ raised[r] = EmptyResults
                      => (resp[r].http = 500 /\ resp[r].detail.text = "Generation failed: "
                          /\ resp[r].detail.msg = EmptyResults)
               /\ raised[r] # EmptyResults => (resp[r].http = 200 /\ resp[r].status = "error")

\* ------------------------------------- further properties of the producer
\* The only failure a call meets in a race for the temporary file: its
\* os.replace finds the file already renamed by the other call.
RaceOnly(fault) == fault = {} \/ fault = {"replace", "tmp_missing"}

\* Producer p returns in this step, after producer q, from a call for the
\* same artifact set with the same temporary path; no file operation failed
\* in either call for a reason other than the race.
ReturnsLast(p, q) ==
    /\ p # q
    /\ pc[q] = "returned" /\ pc[p] \notin {"idle", "returned"} /\ pc'[p] = "returned"
    /\ args[p].prefix = args[q].prefix /\ args[p].tmp_ext = args[q].tmp_ext
    /\ RaceOnly(faults'[p]) /\ RaceOnly(faults[q])

\* C27: when two calls for one artifact set with the same temporary path
\* have both returned, both returned True and the final marker is the
\* complete marker of the call that returned last.
C27_LastPublishWins ==
    [][\A p, q \in Procs :
           ReturnsLast(p, q)
               => /\ ret'[p] = "True" /\ ret[q] = "True"
                  /\ fs'[final_path(p)].exists
                  /\ fs'[final_path(p)].text = JsonDump(payload[p])]_vars

\* C27, as far as it holds: the same, for calls whose temporary path is not
\* the final path.
C27_LastPublishWinsDistinctTmp ==
    [][\A p, q \in Procs :
           (ReturnsLast(p, q) /\ tmp_path(p) # final_path(p))
               => /\ ret'[p] = "True" /\ ret[q] = "True"
                  /\ fs'[final_path(p)].exists
                  /\ fs'[final_path(p)].text = JsonDump(payload[p])]_vars

\* Producer p, alone, has returned False from a republication of an artifact
\* set whose earlier call had published a complete marker without any
\* failure; the temporary path is not the final path.
FailedRepublish(p) ==
    /\ Returned(p) /\ Alone(p) /\ ret[p] = "False"
    /\ history[p] # <<>> /\ history[p][1].ret = "True" /\ history[p][1].clean
    /\ tmp_path(p) # final_path(p)

\* The marker the earlier call of p published.
EarlierMarker(p) == [status |-> "ok", marker |-> history[p][1].payload]

\* C32: a call that returns False leaves the marker published earlier for
\* the same artifact set intact.
C32_FailureKeepsEarlierMarker ==
    \A p \in Procs :
        FailedRepublish(p) => Read(args[p].prefix) = EarlierMarker(p)

\* C32, as far as it holds: the earlier marker survives a failing call
\* exactly when the fallback fails at opening the final path; when its
\* json.dump fails, the final path has been truncated and holds at most the
\* beginning of the new document.
C32_FailureKeepsMarkerUnlessDumpFails ==
    \A p \in Procs :
        FailedRepublish(p)
            => IF "dump_final" \in faults[p]
               THEN Read(args[p].prefix).status = "corrupt"
               ELSE Read(args[p].prefix) = EarlierMarker(p)

\* Producer p, alone, has returned from a call whose temporary path is not
\* the final path and in which os.remove did not fail.
ReturnedRemovable(p) ==
    /\ Returned(p) /\ Alone(p) /\ ret[p] \in {"True", "False"}
    /\ tmp_path(p) # final_path(p)
    /\ "remove" \notin faults[p]

\* C33: after a call has returned, with either result, its temporary file
\* does not exist, provided deleting it was possible.
C33_NoTmpLeftBehind ==
    \A p \in Procs : ReturnedRemovable(p) => ~fs[tmp_path(p)].exists

\* C33, as far as it holds: a call that returns True leaves no temporary
\* file; one that returns False leaves it exactly when it had created it.
C33_TmpLeftOnlyByFailure ==
    \A p \in Procs :
        ReturnedRemovable(p)
            => /\ ret[p] = "True" => ~fs[tmp_path(p)].exists
               /\ (ret[p] = "False" /\ history[p] = <<>>)
                      => (fs[tmp_path(p)].exists <=> "open_tmp" \notin faults[p])

\* C34: every failure is reported as the return value False (exit code 2);
\* no call ends with an exception.
C34_NeverRaises ==
    \A p \in Procs :
        Returned(p)
            => /\ ret[p] \in {"True", "False"}
               /\ ExitCode(ret[p]) \in {0, 2}
               /\ "makedirs" \in faults[p] => ret[p] = "False"

\* C34, as far as it holds: a call ends with an exception exactly when
\* os.makedirs failed, and then nothing was written; every failure inside
\* the try blocks ends with True or False.
C34_RaisesOnlyFromMakedirs ==
    \A p \in Procs :
        Returned(p)
            => /\ ret[p] = "raised" <=> "makedirs" \in faults[p]
               /\ ret[p] = "raised" => (ExitCode(ret[p]) = 1 /\ payload[p] = <<>> /\ log[p] = <<>>)
               /\ ret[p] # "raised" => (ret[p] \in {"True", "False"} /\ ExitCode(ret[p]) \in {0, 2})

\* --------------------------------------------- further adapter properties
\* Request r carried a seed image that cannot be decoded, passed the range
\* validation and has been answered.
UndecodableAnswered(r) ==
    /\ Answered(r) /\ ~OutOfRange(req[r])
    /\ req[r].keyframeBase64.kind = "undecodable"

\* C28: a request whose seed image cannot be decoded never triggers the
\* initialisation of the shared worker.
C28_DecodeFailureBeforeWorker ==
    \A r \in Reqs : UndecodableAnswered(r) => "load" \notin effects[r]

\* C28, the order the handler follows: a request answered with the decode
\* failure (status 400) had acquired the shared worker before.
C28_WorkerBeforeDecode ==
    \A r \in Reqs :
        (Answered(r) /\ resp[r].http = 400)
            => /\ req[r].keyframeBase64.kind = "undecodable"
               /\ worker[r] # 0

\* C29: a request whose worker initialisation failed is answered with a 5xx
\* error that carries the text of the initialisation error, and
\* generator.generate_video is never called for it.
C29_LoadFailureAnswered ==
    \A r \in Reqs :
        loadError[r] # <<>>
            => /\ Answered(r)
               /\ resp[r].http \in 500..599
               /\ resp[r].detail.text = "Failed to load FastVideo model: "
               /\ resp[r].detail.msg = loadError[r]
               /\ "generate" \notin effects[r]
               /\ worker[r] = 0

C29_Witness ==
    /\ Answered("r1") /\ loadError["r1"] = <<"No such file">>
    /\ resp["r1"].http = 500 /\ resp["r1"].detail.msg = <<"No such file">>
    /\ "load" \in effects["r1"]

SavedComplete(r) ==
    /\ Answered(r) /\ resp[r].http = 200 /\ resp[r].status = "complete"
    /\ "save" \in effects[r]

\* C31: two requests that both had raw frames saved into the same output
\* directory never resolve to the same output path, and the file each was
\* answered with still holds its own video.
C31_GeneratedPathsDistinct ==
    \A r, q \in Reqs :
        (r # q /\ SavedComplete(r) /\ SavedComplete(q) /\ req[r].outputDir = req[q].outputDir)
            => /\ resp[r].outputVideoPath # resp[q].outputVideoPath
               /\ files[resp[r].outputVideoPath] = r

\* C31, as far as it holds: the generated paths of two such requests are the
\* same exactly when both read the same millisecond from the clock, and a
\* path that only one of them was answered with holds that request's video.
C31_DistinctUnlessSameMillisecond ==
    \A r, q \in Reqs :
        (r # q /\ SavedComplete(r) /\ SavedComplete(q) /\ req[r].outputDir = req[q].outputDir)
            => /\ resp[r].outputVideoPath.name = "fastvideo_.mp4"
               /\ (resp[r].outputVideoPath = resp[q].outputVideoPath)
                      <=> (resp[r].outputVideoPath.ts = resp[q].outputVideoPath.ts)
               /\ resp[r].outputVideoPath # resp[q].outputVideoPath
                      => files[resp[r].outputVideoPath] = r

\* C35: the wait returns True only for an `executed` event of the awaited
\* prompt, and an `executed` or `error` event of another prompt does not end
\* the wait.
C35_OnlyAwaitedPromptEndsWait ==
    /\ (wpc = "done" /\ wret = "True") => lastMsg.prompt_id # "other"
    /\ (IsTerminalEvent(lastMsg) /\ lastMsg.prompt_id = "other") => wpc = "loop"

\* C35, as far as it holds: prompt_id is not read; an `executed` or `error`
\* event ends the wait whatever prompt it names.
C35_PromptIdIgnored ==
    [][\A id \in PromptIds \cup {""} :
           (RoundTaken /\ IsTerminalEvent(lastMsg') /\ lastMsg'.prompt_id = id /\ CloseSucceeds)
               => /\ wpc' = "done"
                  /\ wret' = "True" <=> IsExecutedEvent(lastMsg')]_vars

\* C36: when ws.close() raises after a terminal event was received, the
\* wait still returns at once with the outcome of that event: True for
\* `executed`, False for `error`.
C36_FirstTerminalEventFixesOutcome ==
    [][(RoundTaken /\ IsTerminalEvent(lastMsg') /\ ws' = "close_failed")
           => /\ wpc' = "done"
              /\ wret' = (IF IsExecutedEvent(lastMsg') THEN "True" ELSE "False")]_vars

\* C36, what happens instead: the exception of ws.close() is swallowed by
\* the loop; the wait returns nothing at that event and stays in its loop,
\* and a wait that ends at the deadline after it returns False.
C36_CloseFailureKeepsWaiting ==
    /\ [][(RoundTaken /\ IsTerminalEvent(lastMsg') /\ ws' = "close_failed")
              => (wpc' = "loop" /\ wret' = "none" /\ wlog' = wlog)]_vars
    /\ []((wpc = "done" /\ Connected /\ wlog[1].line \in {"timeout", "connection_error"})
              => wret = "False")

\* A message the loop skips: an empty one, one that is not JSON, a receive
\* error, or an object of a type the loop does not know.
IsSkipped(m) ==
    \/ m.raw \in {"empty", "notjson", "exception"}
    \/ m.raw = "object" /\ m.type \notin {"executing", "progress", "executed", "error"}

\* C37: a round that receives an empty message, a message that is not JSON,
\* a message of unknown type or a receive error produces no outcome and
\* leaves the wait in its loop; a wait that has returned did so at a terminal
\* event, at the deadline, or, at once and with False, because the
\* connection could not be opened.
C37_SkippedMessagesKeepWaiting ==
    /\ [][(RoundTaken /\ IsSkipped(lastMsg'))
              => (wpc' = "loop" /\ wret' = wret /\ wret' = "none" /\ wlog' = wlog /\ ws' = ws)]_vars
    /\ [][(wpc = "connect" /\ wpc' = "done")
              => (wret' = "False" /\ ws' = "none" /\ lastMsg' = NoMsg
                  /\ wlog' = <<Line("connection_error", "")>>)]_vars
    /\ []((wpc = "done" /\ Connected)
              => \/ IsTerminalEvent(lastMsg) /\ wlog[1].line \in {"complete", "error"}
                 \/ now - start_time >= timeout /\ wret = "False")

\* A wait that skipped a message of unknown type and is still in its loop,
\* with time left.
C37_Witness ==
    /\ wpc = "loop" /\ ws = "open" /\ lastMsg.type = "status"
    /\ wret = "none" /\ wlog = <<>>
    /\ now - start_time > 0 /\ now - start_time < timeout

\* Request r was answered with a failure.
Failed(r) == Answered(r) /\ ~(resp[r].http = 200 /\ resp[r].status = "complete")

\* C38: once the shared generator has been created it is never reset or
\* replaced: it stays the one instance whatever requests fail afterwards,
\* every request that gets a worker gets that instance, and GET /health
\* answers modelLoaded = true from then on.
C38_WorkerStable ==
    /\ [](/\ Loaded # {} => generator = 1
          /\ \A r \in Reqs : worker[r] # 0 => (generator # 0 /\ worker[r] = generator)
          /\ health.modelLoaded => generator # 0)
    /\ [][/\ generator # 0 => generator' = generator
          /\ (generator # 0 /\ nhealth' > nhealth) => health'.modelLoaded
          /\ \A r \in Reqs :
                 (generator # 0 /\ worker[r] = 0 /\ worker'[r] # 0) => worker'[r] = generator]_vars

\* The generator was created for r1, r1 failed afterwards, r2 was then
\* served by the same instance, and GET /health reported the model loaded.
C38_Witness ==
    /\ Answered("r1") /\ Answered("r2") /\ Failed("r1") /\ raised["r1"] # <<>>
    /\ "load" \in effects["r1"] /\ "load" \notin effects["r2"]
    /\ worker["r1"] = 1 /\ worker["r2"] = 1 /\ generator = 1
    /\ "generate" \in effects["r2"]
    /\ health.modelLoaded

====
